---- MODULE Spec2Model ----
(***************************************************************************)
(* Particle effects of objects/particle.py: Particle, ExplosionParticle,   *)
(* ExplosionManager and Fireball.                                          *)
(*                                                                         *)
(* Numbers.  Python floats are kept in fixed point, in hundredths (Scale): *)
(* every step of the code (0.1, 0.15, 0.2, 0.3, 7.2, 9.6, 12) is a whole   *)
(* number of hundredths, so the arithmetic below is the decimal arithmetic *)
(* of the code without the binary rounding error (below 1e-12 here).       *)
(*                                                                         *)
(* Randomness.  The random module is a generator with a hidden state; it   *)
(* is the variable rng, a small congruential generator stepped once per    *)
(* draw, started from any seed of Seeds.                                   *)
(***************************************************************************)
EXTENDS Integers, Sequences, FiniteSets, TLC

VARIABLES
    rng,        \* state of the random module
    nextId,     \* identity given to the next object constructed
    particle,   \* a Particle under test, or NoObject
    ep,         \* an ExplosionParticle under test, or NoObject
    ret,        \* value returned by the latest call
    drawn,      \* draw commands the latest call gave the renderer
    particles,  \* ExplosionManager.particles
    fireball,   \* a Fireball, or NoObject
    call,       \* the latest call: <<operation, arguments...>>
    calls,      \* update calls made since the latest construction or explosion
    seen        \* per identity of a managed particle: the manager updates it has seen

vars == <<rng, nextId, particle, ep, ret, drawn, particles, fireball, call, calls,
          seen>>

----------------------------------------------------------------------------
(* Bounds of the model *)

\* seeds of the random module are 0..MaxSeed
MaxSeed == 255
\* update calls made on a single Particle or ExplosionParticle
MaxUpdates == 50
\* seeds of the random module under an ExplosionManager are 0..MaxManagerSeed
MaxManagerSeed == 0
\* particle objects constructed in a run (the identities are 0..MaxObjects - 1)
MaxObjects == 80
\* num_particles is drawn from 0..MaxNum
MaxNum == 1
\* consecutive ExplosionManager.update calls without a create_explosion
MaxRun == 47
\* seeds of the random module under a Fireball are 0..MaxFireballSeed
MaxFireballSeed == 63
\* update calls made on a Fireball
MaxFrames == 70

----------------------------------------------------------------------------
(* Numbers *)

Scale == 100

Max(a, b) == IF a >= b THEN a ELSE b

Abs(a) == IF a >= 0 THEN a ELSE -a

\* int(v) of a float v held in hundredths: truncation toward zero
Trunc(v) == IF v >= 0 THEN v \div Scale ELSE -((-v) \div Scale)

NoObject == [none |-> TRUE]

NoValue == "none"

----------------------------------------------------------------------------
(* The random module *)

Seeds == 0..MaxSeed

\* the generator's state after one draw
NextRandom(r) == (r + 89) % 256

\* the generator's state after n draws
Skip(r, n) == (r + 89 * n) % 256

\* the n-th draw from state r (n >= 1)
Draw(r, n) == Skip(r, n)

\* random.randint(a, b) on the draw d
RandInt(a, b, d) == a + (d % (b - a + 1))

\* random.uniform(a, b) on the draw d, on the whole numbers of [a, b], in hundredths
Uniform(a, b, d) == Scale * RandInt(a, b, d)

----------------------------------------------------------------------------
(* Particle *)

DefaultColor == <<255, 200, 50>>

Particle(x, y, color, r) ==
    [ x          |-> x,
      y          |-> y,
      color      |-> color,
      size       |-> Scale * RandInt(3, 6, Draw(r, 1)),
      velocity_x |-> Uniform(-3, 3, Draw(r, 2)),
      velocity_y |-> Uniform(-5, -2, Draw(r, 3)),
      gravity    |-> 30,
      lifetime   |-> 30,
      age        |-> 0 ]

ParticleUpdated(p) ==
    [ p EXCEPT !.x = p.x + p.velocity_x,
               !.y = p.y + p.velocity_y,
               !.velocity_y = p.velocity_y + p.gravity,
               !.age = p.age + 1,
               !.size = Max(1 * Scale, p.size - 10) ]

\* is_dead with the age test off by one
is_dead_late(p) == p.age > p.lifetime \/ p.size <= 1 * Scale

is_dead(p) == p.age >= p.lifetime \/ p.size <= 1 * Scale

Circle(color, alpha, cx, cy, radius) ==
    [ cmd |-> "circle", color |-> color, alpha |-> alpha,
      x |-> cx, y |-> cy, radius |-> radius ]

ParticleDrawn(p) ==
    IF p.age < p.lifetime
    THEN << Circle(p.color, 255, Trunc(p.x), Trunc(p.y), Trunc(p.size)) >>
    ELSE << >>

----------------------------------------------------------------------------
(* ExplosionParticle *)

\* (cos, sin) of the angles drawn, in hundredths: the twelve directions whose
\* cosine and sine are whole tenths
Directions ==
    << <<100, 0>>, <<80, 60>>, <<60, 80>>, <<0, 100>>, <<-60, 80>>, <<-80, 60>>,
       <<-100, 0>>, <<-80, -60>>, <<-60, -80>>, <<0, -100>>, <<60, -80>>, <<80, -60>> >>

ExplosionParticle(x, y, color, r, id) ==
    LET angle == Directions[RandInt(1, 12, Draw(r, 1))]
        speed == RandInt(2, 8, Draw(r, 2))
        life  == RandInt(25, 45, Draw(r, 4))
    IN  [ id        |-> id,
          x         |-> x,
          y         |-> y,
          vx        |-> angle[1] * speed,
          vy        |-> angle[2] * speed,
          color     |-> color,
          size      |-> Scale * RandInt(4, 10, Draw(r, 3)),
          life      |-> life,
          max_life  |-> life,
          glow_size |-> RandInt(15, 30, Draw(r, 5)) ]

\* update without the floor of the size
ExplosionParticleUpdatedNoFloor(p) ==
    [ p EXCEPT !.x = p.x + p.vx,
               !.y = p.y + p.vy,
               !.vy = p.vy + 20,
               !.life = p.life - 1,
               !.size = p.size - 15 ]

\* the state p.update() leaves the particle in
ExplosionParticleUpdated(p) ==
    [ p EXCEPT !.x = p.x + p.vx,
               !.y = p.y + p.vy,
               !.vy = p.vy + 20,
               !.life = p.life - 1,
               !.size = Max(1 * Scale, p.size - 15) ]

\* liveness reported one call late
ExplosionParticleAliveLate(q) == q.life >= 0

\* the value p.update() returns, q being the state it leaves
ExplosionParticleAlive(q) == q.life > 0

\* alpha rounded to the nearest integer instead of truncated
AlphaRounded(life, max_life) == (2 * 255 * life + max_life) \div (2 * max_life)

\* int(255 * (life / max_life)); for 1 <= life <= max_life <= 45 the double
\* arithmetic gives the floor of the exact quotient
Alpha(life, max_life) == (255 * life) \div max_life

GlowSize(p, i) == p.glow_size - (i * 5)

GlowAlpha(alpha, i) == Max(0, alpha \div (i + 2))

\* the glow layers 0..2 whose radius is positive, outermost first
GlowLayers(p) ==
    LET layer(i) == IF GlowSize(p, i) > 0
                    THEN << [ cmd |-> "glow", color |-> p.color,
                              alpha |-> GlowAlpha(Alpha(p.life, p.max_life), i),
                              x |-> Trunc(p.x - Scale * GlowSize(p, i)),
                              y |-> Trunc(p.y - Scale * GlowSize(p, i)),
                              radius |-> GlowSize(p, i), layer |-> i ] >>
                    ELSE << >>
    IN  layer(0) \o layer(1) \o layer(2)

ExplosionParticleDrawn(p) ==
    IF p.life > 0
    THEN GlowLayers(p) \o << Circle(p.color, 255, Trunc(p.x), Trunc(p.y), Trunc(p.size)) >>
    ELSE << >>

----------------------------------------------------------------------------
(* A single Particle or ExplosionParticle, constructed and then updated   *)
(* and drawn by its owner in any order.                                    *)

\* spawn positions (hundredths) and colours the callers pass
Points == { <<0, 0>>, <<-2550, 40075>> }

Colors == { DefaultColor, <<255, 0, 0>> }

InitParticle ==
    \E seed \in Seeds, pt \in Points, color \in Colors :
        /\ particle = Particle(pt[1], pt[2], color, seed)
        /\ rng = Skip(seed, 3)
        /\ ep = NoObject
        /\ call = <<"Particle">>

InitExplosionParticle ==
    \E seed \in Seeds, pt \in Points, color \in Colors :
        /\ ep = ExplosionParticle(pt[1], pt[2], color, seed, 0)
        /\ rng = Skip(seed, 5)
        /\ particle = NoObject
        /\ call = <<"ExplosionParticle">>

InitSingle ==
    /\ InitParticle \/ InitExplosionParticle
    /\ nextId = 1
    /\ ret = NoValue
    /\ drawn = << >>
    /\ particles = << >>
    /\ fireball = NoObject
    /\ calls = 0
    /\ seen = << >>

Particle_update ==
    /\ particle # NoObject
    /\ calls < MaxUpdates
    /\ particle' = ParticleUpdated(particle)
    /\ ret' = NoValue
    /\ drawn' = << >>
    /\ call' = <<"update">>
    /\ calls' = calls + 1
    /\ UNCHANGED <<seen, rng, nextId, ep, particles, fireball>>

Particle_draw ==
    /\ particle # NoObject
    /\ drawn' = ParticleDrawn(particle)
    /\ ret' = NoValue
    /\ call' = <<"draw">>
    /\ UNCHANGED <<seen, rng, nextId, particle, ep, particles, fireball, calls>>

Particle_is_dead ==
    /\ particle # NoObject
    /\ ret' = is_dead(particle)
    /\ drawn' = << >>
    /\ call' = <<"is_dead">>
    /\ UNCHANGED <<seen, rng, nextId, particle, ep, particles, fireball, calls>>

ExplosionParticle_update ==
    /\ ep # NoObject
    /\ calls < MaxUpdates
    /\ ep' = ExplosionParticleUpdated(ep)
    /\ ret' = ExplosionParticleAlive(ep')
    /\ drawn' = << >>
    /\ call' = <<"update">>
    /\ calls' = calls + 1
    /\ UNCHANGED <<seen, rng, nextId, particle, particles, fireball>>

ExplosionParticle_draw ==
    /\ ep # NoObject
    /\ drawn' = ExplosionParticleDrawn(ep)
    /\ ret' = NoValue
    /\ call' = <<"draw">>
    /\ UNCHANGED <<seen, rng, nextId, particle, ep, particles, fireball, calls>>

NextSingle ==
    \/ Particle_update
    \/ Particle_draw
    \/ Particle_is_dead
    \/ ExplosionParticle_update
    \/ ExplosionParticle_draw

SpecSingle == InitSingle /\ [][NextSingle]_vars

----------------------------------------------------------------------------
(* ExplosionManager *)

White == <<255, 255, 255>>

Orange == <<255, 150, 0>>

\* the particles that for _ in range(n): append(ExplosionParticle(x, y, color))
\* appends, from generator state r (five draws each), the objects taking the
\* identities id, id + 1, ...
Spawn(x, y, color, n, r, id) ==
    IF n <= 0 THEN << >>
    ELSE [ i \in 1..n |->
             ExplosionParticle(x, y, color, Skip(r, 5 * (i - 1)), id + i - 1) ]

\* number of objects range(n) constructs
Count(n) == Max(n, 0)

\* create_explosion with the sizes of the two fixed batches exchanged
CreateExplosionSwapped(ps, x, y, color, num_particles, r, id) ==
    LET n == Count(num_particles)
    IN  ps \o Spawn(x, y, color, num_particles, r, id)
           \o Spawn(x, y, White, 15, Skip(r, 5 * n), id + n)
           \o Spawn(x, y, Orange, 20, Skip(r, 5 * (n + 15)), id + n + 15)

\* self.particles after create_explosion(x, y, color, num_particles); the
\* callers pass a count, num_particles >= 0
CreateExplosion(ps, x, y, color, num_particles, r, id) ==
    LET n == Count(num_particles)
    IN  ps \o Spawn(x, y, color, num_particles, r, id)
           \o Spawn(x, y, White, 20, Skip(r, 5 * n), id + n)
           \o Spawn(x, y, Orange, 15, Skip(r, 5 * (n + 20)), id + n + 20)

\* the filter reading the liveness the particles had before their update
UpdateAndFilterStale(ps) ==
    LET alive == SelectSeq(ps, ExplosionParticleAlive)
    IN  [ i \in 1..Len(alive) |-> ExplosionParticleUpdated(alive[i]) ]

\* [p for p in ps if p.update()]
UpdateAndFilter(ps) ==
    LET updated == [ i \in 1..Len(ps) |-> ExplosionParticleUpdated(ps[i]) ]
    IN  SelectSeq(updated, ExplosionParticleAlive)

Ids(ps) == { ps[i].id : i \in 1..Len(ps) }

\* the (position, colour) arguments the game passes to create_explosion
ExplosionArgs == { << <<0, 0>>, DefaultColor >>, << <<-2550, 40075>>, <<255, 0, 0>> >> }

InitManager ==
    /\ rng \in 0..MaxManagerSeed
    /\ nextId = 0
    /\ particles = << >>
    /\ seen = << >>
    /\ particle = NoObject
    /\ ep = NoObject
    /\ fireball = NoObject
    /\ ret = NoValue
    /\ drawn = << >>
    /\ call = <<"ExplosionManager">>
    /\ calls = 0

ExplosionManager_create_explosion ==
    /\ \E args \in ExplosionArgs, num_particles \in 0..MaxNum :
          LET pt == args[1]
              color == args[2]
              added == Count(num_particles) + 20 + 15
          IN  /\ nextId + added <= MaxObjects
              /\ particles' = CreateExplosion(particles, pt[1], pt[2], color,
                                              num_particles, rng, nextId)
              /\ rng' = Skip(rng, 5 * added)
              /\ nextId' = nextId + added
              /\ seen' = [ id \in DOMAIN seen \cup (nextId..(nextId + added - 1)) |->
                             IF id \in DOMAIN seen THEN seen[id] ELSE 0 ]
              /\ call' = <<"create_explosion", pt[1], pt[2], color, num_particles>>
    /\ calls' = 0
    /\ ret' = NoValue
    /\ drawn' = << >>
    /\ UNCHANGED <<particle, ep, fireball>>

ExplosionManager_update ==
    /\ calls < MaxRun
    /\ particles' = UpdateAndFilter(particles)
    /\ seen' = [ id \in Ids(particles') |-> seen[id] + 1 ]
    /\ calls' = calls + 1
    /\ call' = <<"update">>
    /\ ret' = NoValue
    /\ drawn' = << >>
    /\ UNCHANGED <<rng, nextId, particle, ep, fireball>>

NextManager ==
    \/ ExplosionManager_create_explosion
    \/ ExplosionManager_update

SpecManager == InitManager /\ [][NextManager]_vars

----------------------------------------------------------------------------
(* Fireball.  The sprite (fireball_image) only selects how draw renders    *)
(* and is left out.  The shots taken have a whole distance from source to  *)
(* target, so that dx / distance * speed is a whole number of hundredths.  *)

\* math.sqrt(n) for the perfect squares the shots below give
Sqrt(n) == CHOOSE k \in 0..1000 : k * k = n

\* the fallback of the constructor pointing down instead of up
FireballVelocityDown(dx, dy, speed) ==
    LET distance == Sqrt(dx * dx + dy * dy)
    IN  IF distance > 0
        THEN << (dx * speed * Scale) \div distance, (dy * speed * Scale) \div distance >>
        ELSE << 0, speed * Scale >>

\* (vx, vy) of the constructor, in hundredths, for whole dx, dy (pixels)
FireballVelocity(dx, dy, speed) ==
    LET distance == Sqrt(dx * dx + dy * dy)
    IN  IF distance > 0
        THEN << (dx * speed * Scale) \div distance, (dy * speed * Scale) \div distance >>
        ELSE << 0, -(speed * Scale) >>

\* Fireball(x, y, target_x, target_y), the arguments in pixels
Fireball(x, y, target_x, target_y) ==
    LET v == FireballVelocity(target_x - x, target_y - y, 12)
    IN  [ x               |-> Scale * x,
          y               |-> Scale * y,
          target_x        |-> Scale * target_x,
          target_y        |-> Scale * target_y,
          speed           |-> 12,
          active          |-> TRUE,
          trail_particles |-> << >>,
          vx              |-> v[1],
          vy              |-> v[2],
          radius          |-> 15 ]

\* the bounds test with the borders counted as off screen
OffScreenInclusive(x, y) ==
    y <= -50 * Scale \/ y >= 800 * Scale \/ x <= -50 * Scale \/ x >= 750 * Scale

\* self.y < -50 or self.y > 800 or self.x < -50 or self.x > 750
OffScreen(x, y) ==
    y < -50 * Scale \/ y > 800 * Scale \/ x < -50 * Scale \/ x > 750 * Scale

TrailColors == << <<255, 150, 0>>, <<255, 200, 50>>, <<255, 100, 0>> >>

\* random.random() < 0.3 on the draw d, random() taken in tenths
SpawnsTrail(d) == (d % 10) < 3

\* generator draws one Fireball.update makes from state r
FireballDraws(r) == IF SpawnsTrail(Draw(r, 1)) THEN 7 ELSE 1

\* update with the new trail particle appended after the trail is aged
FireballUpdatedSpawnLast(f, r, id) ==
    LET x1 == f.x + f.vx
        y1 == f.y + f.vy
        trail_color == TrailColors[RandInt(1, 3, Draw(r, 2))]
        aged == UpdateAndFilter(f.trail_particles)
        trail == IF SpawnsTrail(Draw(r, 1))
                 THEN Append(aged, ExplosionParticle(x1, y1, trail_color, Skip(r, 2), id))
                 ELSE aged
    IN  [ f EXCEPT !.x = x1,
                   !.y = y1,
                   !.trail_particles = trail,
                   !.active = IF OffScreen(x1, y1) THEN FALSE ELSE f.active ]

\* the fireball after update(), from generator state r, a new trail particle
\* taking the identity id
FireballUpdated(f, r, id) ==
    LET x1 == f.x + f.vx
        y1 == f.y + f.vy
        trail_color == TrailColors[RandInt(1, 3, Draw(r, 2))]
        trail == IF SpawnsTrail(Draw(r, 1))
                 THEN Append(f.trail_particles,
                             ExplosionParticle(x1, y1, trail_color, Skip(r, 2), id))
                 ELSE f.trail_particles
    IN  [ f EXCEPT !.x = x1,
                   !.y = y1,
                   !.trail_particles = UpdateAndFilter(trail),
                   !.active = IF OffScreen(x1, y1) THEN FALSE ELSE f.active ]

\* pygame.Rect(x - radius, y - radius, radius * 2, radius * 2)
get_rect(f) ==
    << f.x - Scale * f.radius, f.y - Scale * f.radius,
       Scale * f.radius * 2, Scale * f.radius * 2 >>

\* (x, y, target_x, target_y) of the fireballs shot, in pixels: straight down
\* from the origin, source equal to target, along each axis onto a border
\* and past it, from outside the field inwards, and two diagonals
Shots ==
    { <<0, 0, 0, 100>>, <<350, 694, 350, 694>>, <<40, 400, 140, 400>>,
      <<30, 400, 130, 400>>, <<10, 400, -90, 400>>, <<0, 8, 0, 108>>,
      <<-98, 400, 2, 400>>, <<350, 700, 380, 660>>, <<100, 100, 40, 180>> }

InitFireball ==
    /\ rng \in 0..MaxFireballSeed
    /\ \E shot \in Shots :
          /\ fireball = Fireball(shot[1], shot[2], shot[3], shot[4])
          /\ call = <<"Fireball", shot[1], shot[2], shot[3], shot[4]>>
    /\ nextId = 0
    /\ particles = << >>
    /\ seen = << >>
    /\ particle = NoObject
    /\ ep = NoObject
    /\ ret = NoValue
    /\ drawn = << >>
    /\ calls = 0

Fireball_update ==
    /\ calls < MaxFrames
    /\ fireball' = FireballUpdated(fireball, rng, nextId)
    /\ rng' = Skip(rng, FireballDraws(rng))
    /\ nextId' = IF SpawnsTrail(Draw(rng, 1)) THEN nextId + 1 ELSE nextId
    /\ calls' = calls + 1
    /\ call' = <<"update">>
    /\ ret' = NoValue
    /\ UNCHANGED <<particle, ep, drawn, particles, seen>>

Fireball_get_rect ==
    /\ ret' = get_rect(fireball)
    /\ call' = <<"get_rect">>
    /\ UNCHANGED <<rng, nextId, particle, ep, drawn, particles, seen, fireball, calls>>

NextFireball ==
    \/ Fireball_update
    \/ Fireball_get_rect

SpecFireball == InitFireball /\ [][NextFireball]_vars

----------------------------------------------------------------------------
(* Claims on a single Particle or ExplosionParticle (SpecSingle)           *)

\* C3: every ExplosionParticle.update() call lowers life by exactly 1 and
\* returns (life after the call > 0); a particle created with life L returns
\* true on its first L-1 calls and false from the L-th on.
C3_UpdateReportsLiveness ==
    /\ [][ (ep # NoObject /\ call' = <<"update">>) =>
              /\ ep'.life = ep.life - 1
              /\ ret' = (ep'.life > 0) ]_vars
    /\ [](ep # NoObject /\ call = <<"update">> => ret = (calls < ep.max_life))

\* the L-th update call of a particle created with life L has returned false
C3_Witness ==
    /\ ep # NoObject
    /\ call = <<"update">>
    /\ calls = ep.max_life
    /\ ep.life = 0
    /\ ret = FALSE

\* C4: the size of a Particle (initially 3..6) and of an ExplosionParticle
\* (initially 4..10) is at least 1 in every state and no update raises it.
C4_SizeFloorMonotone ==
    /\ [](particle # NoObject =>
            /\ particle.size >= 1 * Scale
            /\ calls = 0 => particle.size \in { Scale * k : k \in 3..6 })
    /\ [](ep # NoObject =>
            /\ ep.size >= 1 * Scale
            /\ calls = 0 => ep.size \in { Scale * k : k \in 4..10 })
    /\ [][ /\ particle # NoObject => particle'.size <= particle.size
           /\ ep # NoObject => ep'.size <= ep.size ]_vars

\* an ExplosionParticle held at the floor by updates that would have taken its
\* size below 1
C4_Witness ==
    /\ ep # NoObject
    /\ call = <<"update">>
    /\ calls > 27
    /\ ep.size = 1 * Scale

\* C5: a Particle is dead after 30 update calls and after every later one,
\* whatever its initial size; is_dead() is age >= 30 or size <= 1.
C5_DeadAfterLifetime ==
    particle # NoObject =>
        /\ calls >= 30 => is_dead(particle)
        /\ call = <<"is_dead">> =>
              ret = (particle.age >= 30 \/ particle.size <= 1 * Scale)

\* is_dead() answers true at the 30th update for a particle whose size is
\* still above 1
C5_Witness ==
    /\ particle # NoObject
    /\ call = <<"is_dead">>
    /\ calls = 30
    /\ particle.size > 1 * Scale
    /\ ret = TRUE

\* the glow layers of the latest draw call are those of the base alpha a
GlowFromAlpha(a) ==
    /\ Len(drawn) = 4
    /\ \A i \in 0..2 :
          /\ drawn[i + 1].cmd = "glow"
          /\ drawn[i + 1].layer = i
          /\ drawn[i + 1].alpha = Max(0, a \div (i + 2))
    /\ drawn[4].cmd = "circle"

\* C8 as stated: alpha is 255 * life / max_life rounded to the nearest integer.
C8_AlphaRounded ==
    (ep # NoObject /\ call = <<"draw">>) =>
        IF ep.life > 0
        THEN \E a \in 0..255 :
                /\ 2 * Abs(255 * ep.life - a * ep.max_life) <= ep.max_life
                /\ GlowFromAlpha(a)
        ELSE drawn = << >>

\* C8 (amended): ExplosionParticle.draw, when life > 0, computes alpha as
\* 255 * life / max_life truncated to an integer (its floor) and gives glow
\* layer i the alpha value alpha // (i + 2), floored at 0; when life <= 0 it
\* emits no draw command.
C8_AlphaTruncated ==
    (ep # NoObject /\ call = <<"draw">>) =>
        IF ep.life > 0
        THEN \E a \in 0..255 :
                /\ a * ep.max_life <= 255 * ep.life
                /\ 255 * ep.life < (a + 1) * ep.max_life
                /\ GlowFromAlpha(a)
        ELSE drawn = << >>

\* a draw at a life whose exact alpha has a fractional part of a half or more
C8_Witness ==
    /\ ep # NoObject
    /\ call = <<"draw">>
    /\ ep.life > 0
    /\ ep.life < ep.max_life
    /\ 2 * ((255 * ep.life) % ep.max_life) >= ep.max_life
    /\ Len(drawn) = 4
    /\ drawn[1].alpha = ((255 * ep.life) \div ep.max_life) \div 2

----------------------------------------------------------------------------
(* Claims on the ExplosionManager (SpecManager)                            *)

\* C1: under any interleaving of create_explosion and update, right after
\* every ExplosionManager.update call each particle left in the collection
\* has life > 0.
C1_SurvivorsAlive ==
    call = <<"update">> => \A i \in 1..Len(particles) : particles[i].life > 0

\* an update call has removed particles and left others
C1_Witness ==
    /\ call = <<"update">>
    /\ particles # << >>
    /\ \E id \in 0..(nextId - 1) : id \notin Ids(particles)

C10_RemovedAtLifeEnd ==
    /\ [][ call' = <<"update">> =>
             LET kept == Ids(particles')
             IN  /\ kept \subseteq Ids(particles)
                 /\ \A i \in 1..Len(particles) :
                       LET p == particles[i]
                       IN  /\ p.max_life \in 25..45
                           /\ (p.id \in kept) <=> (seen[p.id] + 1 < p.max_life) ]_vars
    /\ [](calls >= 45 => particles = << >>)
    /\ [][ (particles = << >> /\ particles' # << >>) =>
              call'[1] = "create_explosion" ]_vars

\* the 45th update call after an explosion has emptied the collection, which
\* the 44th had not
C10_Witness ==
    /\ call = <<"update">>
    /\ calls = 45
    /\ nextId > 0
    /\ particles = << >>

----------------------------------------------------------------------------
(* Claims on the Fireball (SpecFireball)                                   *)

\* C6: Fireball.update sets active to false on the very call whose move takes
\* the fireball out of the bounds (x < -50, x > 750, y < -50 or y > 800 after
\* the move, x = 760 for one); a position inside the bounds after the move,
\* the borders included, leaves active unchanged; nothing sets active back
\* to true.
C6_DeactivatedOffScreen ==
    /\ [][ call' = <<"update">> =>
             LET x == fireball'.x
                 y == fireball'.y
                 inside == /\ -50 * Scale <= x /\ x <= 750 * Scale
                           /\ -50 * Scale <= y /\ y <= 800 * Scale
             IN  /\ x = fireball.x + fireball.vx
                 /\ y = fireball.y + fireball.vy
                 /\ ~inside => fireball'.active = FALSE
                 /\ inside => fireball'.active = fireball.active ]_vars
    /\ [][ fireball.active = FALSE => fireball'.active = FALSE ]_vars

\* the update that moved a fireball from x = 748 to x = 760 has deactivated it
C6_Witness ==
    /\ call = <<"update">>
    /\ fireball.x = 760 * Scale
    /\ fireball.vx = 12 * Scale
    /\ fireball.active = FALSE

\* C7: the constructor gives velocity (0, -12) when source and target are
\* equal, and otherwise the direction from source to target at speed 12, so
\* (0, 0) -> (0, 100) gives (0, 12); the target is the one given to the
\* constructor, and update changes neither target nor velocity.
C7_VelocityTowardsTarget ==
    /\ [](call[1] = "Fireball" =>
            LET dx == call[4] - call[2]
                dy == call[5] - call[3]
                vx == fireball.vx
                vy == fireball.vy
            IN  /\ fireball.target_x = Scale * call[4]
                /\ fireball.target_y = Scale * call[5]
                /\ (dx = 0 /\ dy = 0) => (vx = 0 /\ vy = -12 * Scale)
                /\ (dx # 0 \/ dy # 0) =>
                      /\ vx * vx + vy * vy = (12 * Scale) * (12 * Scale)
                      /\ vx * dy = vy * dx
                      /\ vx * dx >= 0
                      /\ vy * dy >= 0
                /\ (call = <<"Fireball", 0, 0, 0, 100>>) => (vx = 0 /\ vy = 12 * Scale))
    /\ [][ /\ fireball'.vx = fireball.vx
           /\ fireball'.vy = fireball.vy
           /\ fireball'.target_x = fireball.target_x
           /\ fireball'.target_y = fireball.target_y ]_vars

\* a fireball built with source equal to target, moving straight up
C7_Witness ==
    /\ call = <<"update">>
    /\ fireball.target_x = 350 * Scale
    /\ fireball.target_y = 694 * Scale
    /\ fireball.x = 350 * Scale
    /\ fireball.y = (694 - 12 * calls) * Scale
    /\ fireball.vx = 0
    /\ fireball.vy = -12 * Scale
    /\ calls > 0

\* C9: after every Fireball.update call every trail particle has life > 0,
\* at most one of them was not in the trail before the call, a particle
\* spawned during the call has already been aged once by it (life is its
\* initial life minus 1, position moved by its velocity from the fireball's
\* new position), and every older particle that survives has been aged
\* exactly once; the older particles dropped are those whose life ran out.
C9_TrailAgedOnce ==
    [][ call' = <<"update">> =>
          LET old == fireball.trail_particles
              new == fireball'.trail_particles
          IN  /\ \A j \in 1..Len(new) : new[j].life > 0
              /\ Cardinality(Ids(new) \ Ids(old)) <= 1
              /\ \A j \in 1..Len(new) :
                    LET q == new[j]
                    IN  IF q.id \in Ids(old)
                        THEN \E i \in 1..Len(old) :
                                /\ old[i].id = q.id
                                /\ q.life = old[i].life - 1
                                /\ q.x = old[i].x + old[i].vx
                                /\ q.y = old[i].y + old[i].vy
                                /\ q.vy = old[i].vy + 20
                        ELSE /\ j = Len(new)
                             /\ q.life = q.max_life - 1
                             /\ q.x = fireball'.x + q.vx
                             /\ q.y = fireball'.y + (q.vy - 20)
              /\ \A i \in 1..Len(old) :
                    (old[i].id \in Ids(new)) <=> (old[i].life > 1) ]_vars

\* an update has spawned a trail particle behind older ones: the new one aged
\* once, the oldest aged more than once
C9_Witness ==
    /\ call = <<"update">>
    /\ Len(fireball.trail_particles) >= 2
    /\ LET new == fireball.trail_particles[Len(fireball.trail_particles)]
           first == fireball.trail_particles[1]
       IN  /\ new.life = new.max_life - 1
           /\ new.x = fireball.x + new.vx
           /\ first.life < first.max_life - 1
    /\ nextId > Len(fireball.trail_particles)

====
